---- MODULE Spec2Model ----
(***************************************************************************)
(* Model of src/app.py (IRMS): the requirement extraction core             *)
(* (RequirementsExtractor, extract_stakeholders) and the two route         *)
(* handlers that mutate the in-memory store (analyze_transcript,           *)
(* update_requirement).                                                    *)
(*                                                                         *)
(* Python str values are TLA+ strings; a character is a string of length   *)
(* one, obtained with SubSeq.  Regular expressions are modelled by         *)
(* matchers that follow the backtracking order of Python's re module.      *)
(***************************************************************************)
EXTENDS Integers, Sequences, FiniteSets, TLC

\* requirements_db, changes_log, nlp: the module variables of app.py
\* clock:    datetime.now(), kept as the number of timestamps stored so far:
\*           every timestamp that is stored is later than the ones before it
\* response: the response of the last request
\* call:     the last call of a core function made by a library caller
VARIABLES requirements_db, changes_log, nlp, clock, response, call

vars == <<requirements_db, changes_log, nlp, clock, response, call>>

(***************************************************************************)
(* Bounds of the model.                                                    *)
(***************************************************************************)
\* largest number of records the store is allowed to reach
MaxDb == 6
\* largest number of entries the change log is allowed to reach
MaxLog == 1

(***************************************************************************)
(* Python str primitives.                                                  *)
(***************************************************************************)
Ch(s, i) == SubSeq(s, i, i)

UpperAlpha == "ABCDEFGHIJKLMNOPQRSTUVWXYZ"
LowerAlpha == "abcdefghijklmnopqrstuvwxyz"
Digits == "0123456789"

UpperSet == {Ch(UpperAlpha, i) : i \in 1..26}
LowerSet == {Ch(LowerAlpha, i) : i \in 1..26}
DigitSet == {Ch(Digits, i) : i \in 1..10}

IsUpper(c) == c \in UpperSet
IsLower(c) == c \in LowerSet
IsCased(c) == IsUpper(c) \/ IsLower(c)
IsDigit(c) == c \in DigitSet

\* str.isspace() / regex \s
IsSpace(c) == c \in {" ", "\t", "\n"}

\* regex \w
IsWord(c) == IsCased(c) \/ IsDigit(c) \/ c = "_"

LowerOf == [c \in UpperSet |-> Ch(LowerAlpha, CHOOSE i \in 1..26 : Ch(UpperAlpha, i) = c)]
UpperOf == [c \in LowerSet |-> Ch(UpperAlpha, CHOOSE i \in 1..26 : Ch(LowerAlpha, i) = c)]

LowerCh(c) == IF IsUpper(c) THEN LowerOf[c] ELSE c
UpperCh(c) == IF IsLower(c) THEN UpperOf[c] ELSE c

\* the least and the greatest element of a non-empty set of integers
Least(S) == CHOOSE x \in S : \A y \in S : x <= y
Greatest(S) == CHOOSE x \in S : \A y \in S : y <= x

\* the string of the characters lo..hi of s, every character mapped
RECURSIVE LowerRange(_, _, _)
LowerRange(s, lo, hi) ==
    IF lo > hi THEN ""
    ELSE IF lo = hi THEN LowerCh(Ch(s, lo))
    ELSE LET mid == (lo + hi) \div 2
         IN  LowerRange(s, lo, mid) \o LowerRange(s, mid + 1, hi)

\* str.lower()
Lower(s) == LowerRange(s, 1, Len(s))

\* str.title(): a cased character is upper case exactly when the character
\* before it is not cased
TitleCh(s, i) ==
    IF i > 1 /\ IsCased(Ch(s, i - 1)) THEN LowerCh(Ch(s, i)) ELSE UpperCh(Ch(s, i))

RECURSIVE TitleRange(_, _, _)
TitleRange(s, lo, hi) ==
    IF lo > hi THEN ""
    ELSE IF lo = hi THEN TitleCh(s, lo)
    ELSE LET mid == (lo + hi) \div 2
         IN  TitleRange(s, lo, mid) \o TitleRange(s, mid + 1, hi)

Title(s) == TitleRange(s, 1, Len(s))

\* str.strip()
Strip(s) ==
    LET keep == {i \in 1..Len(s) : ~IsSpace(Ch(s, i))}
    IN  IF keep = {} THEN "" ELSE SubSeq(s, Least(keep), Greatest(keep))

\* s[i:].startswith(lit), 1-based
StartsAt(s, lit, i) ==
    /\ i >= 1
    /\ i + Len(lit) - 1 <= Len(s)
    /\ SubSeq(s, i, i + Len(lit) - 1) = lit

\* Python `w in s` for strings
Contains(s, w) == \E i \in 1..(Len(s) - Len(w) + 1) : StartsAt(s, w, i)

\* any(w in s for w in words)
ContainsAny(s, words) == \E k \in 1..Len(words) : Contains(s, words[k])

\* end of the maximal run of whitespace starting at i (i - 1 when there is none)
SpaceRunEnd(s, i) ==
    Least({j \in i..(Len(s) + 1) : j = Len(s) + 1 \/ ~IsSpace(Ch(s, j))} \cup {Len(s) + 1}) - 1

\* end of the maximal run of \w characters starting at i (i - 1 when there is none)
WordRunEnd(s, i) ==
    Least({j \in i..(Len(s) + 1) : j = Len(s) + 1 \/ ~IsWord(Ch(s, j))} \cup {Len(s) + 1}) - 1

\* " ".join(parts)
RECURSIVE Join(_)
Join(parts) ==
    IF Len(parts) = 0 THEN ""
    ELSE IF Len(parts) = 1 THEN parts[1]
    ELSE parts[1] \o " " \o Join(Tail(parts))

\* list(dict.fromkeys(xs)): the first occurrence of every element, in order
RECURSIVE Dedup(_)
Dedup(xs) ==
    IF Len(xs) = 0 THEN <<>>
    ELSE LET front == Dedup(SubSeq(xs, 1, Len(xs) - 1))
             x == xs[Len(xs)]
         IN  IF \E k \in 1..Len(front) : front[k] = x THEN front ELSE Append(front, x)

Range(xs) == {xs[k] : k \in 1..Len(xs)}

(***************************************************************************)
(* The linguistic backend (spaCy).  `nlp` is None when the model could     *)
(* not be loaded.  What a loaded backend returns for a text is decided     *)
(* outside this program: a loaded backend is an outcome record `lx` that   *)
(* says whether nlp(text) raises ("parse"), whether the walk over the      *)
(* parse raises ("verbs"), and how a text is segmented and parsed.  The    *)
(* backend is a fixed function of the text for the life of the process.    *)
(***************************************************************************)
\* largest token position the parser may tag as the verb
MaxVerbAt == 2

ThrowPoints == {"no", "parse", "verbs"}
SentModes == {"whole", "period"}
SpanModes == {"self", "right", "all"}

\* person names the entity recogniser may report
PersonNames == {"Jane Smith"}

Outcomes ==
    [throws : ThrowPoints, sents : SentModes, verbAt : 0..MaxVerbAt,
     span : SpanModes, persons : SUBSET PersonNames]

\* the backends the model is run with: an outcome field is left at its
\* first value where the backend raises before the field is consulted
Backends ==
    {lx \in Outcomes :
        /\ lx.throws = "parse" => lx.sents = "whole" /\ lx.persons = {}
        /\ lx.throws # "no" => lx.verbAt = 0
        /\ lx.verbAt = 0 => lx.span = "self"}

\* doc.sents: the spans the parser marks as sentences
RECURSIVE SplitPeriod(_, _)
SplitPeriod(s, from) ==
    IF from > Len(s) THEN <<>>
    ELSE LET stops == {i \in from..Len(s) : Ch(s, i) = "."}
         IN  IF stops = {} THEN <<SubSeq(s, from, Len(s))>>
             ELSE <<SubSeq(s, from, Least(stops))>> \o SplitPeriod(s, Least(stops) + 1)

Sents(s, lx) ==
    IF Len(s) = 0 THEN <<>>
    ELSE IF lx.sents = "whole" THEN <<s>>
    ELSE SplitPeriod(s, 1)

\* the tokens of a doc: runs of word characters and single punctuation marks
RECURSIVE TokensFrom(_, _)
TokensFrom(s, i0) ==
    LET i == SpaceRunEnd(s, i0) + 1
    IN  IF i > Len(s) THEN <<>>
        ELSE IF IsWord(Ch(s, i))
             THEN <<SubSeq(s, i, WordRunEnd(s, i))>> \o TokensFrom(s, WordRunEnd(s, i) + 1)
             ELSE <<Ch(s, i)>> \o TokensFrom(s, i + 1)

Tokens(s) == TokensFrom(s, 1)

\* [t.text for t in token.subtree] of the token tagged VERB
Subtree(toks, lx) ==
    IF lx.span = "self" THEN SubSeq(toks, lx.verbAt, lx.verbAt)
    ELSE IF lx.span = "right" THEN SubSeq(toks, lx.verbAt, Len(toks))
    ELSE toks

(***************************************************************************)
(* RequirementsExtractor.__init__                                          *)
(***************************************************************************)
\* every pattern is  <literal>\s+(.+?)(?:\.|$) ; a pattern is the sequence
\* of its literal alternatives in the order the regex engine tries them
requirement_patterns ==
    << <<"we need to">>,
       <<"the system should">>,
       <<"users should be able to", "users must", "users need to",
         "user should be able to", "user must", "user need to">>,
       <<"requirement is to">>,
       <<"we want to">>,
       <<"it should">>,
       <<"must have">>,
       <<"looking for">> >>

actor_keywords ==
    <<"user", "customer", "admin", "manager", "employee", "system", "client", "vendor">>

action_verbs ==
    <<"create", "view", "update", "delete", "manage", "access", "generate", "submit",
      "approve", "track", "monitor", "search", "filter", "export", "import">>

\* len(req) > MinLen keeps a candidate
MinLen == 10

(***************************************************************************)
(* re.finditer(pattern, text, re.IGNORECASE) for the requirement patterns  *)
(***************************************************************************)
\* literal match under re.IGNORECASE
StartsAtI(s, lit, i) ==
    /\ i >= 1
    /\ i + Len(lit) - 1 <= Len(s)
    /\ LowerCh(Ch(s, i)) = LowerCh(Ch(lit, 1))
    /\ Lower(SubSeq(s, i, i + Len(lit) - 1)) = Lower(lit)

\* (?:\.|$) matches at position j
AtTerm(s, j) ==
    \/ j = Len(s) + 1
    \/ j <= Len(s) /\ Ch(s, j) = "."
    \/ j = Len(s) /\ Ch(s, j) = "\n"

\* (.+?) from g: the first j > g where the terminator matches, 0 when a
\* newline is met first
GroupEnd(s, g) ==
    LET j == Least({x \in (g + 1)..(Len(s) + 1) : AtTerm(s, x)})
    IN  IF \E x \in g..(j - 1) : Ch(s, x) = "\n" THEN 0 ELSE j

NoMatch == [ok |-> FALSE, group |-> "", end |-> 0]

\* \s+(.+?)(?:\.|$) from position p; \s+ is greedy and gives back one
\* character at a time
TailMatch(s, p) ==
    LET e == SpaceRunEnd(s, p)
        starts == {g \in (p + 1)..(e + 1) : g <= Len(s) /\ GroupEnd(s, g) # 0}
    IN  IF starts = {} THEN NoMatch
        ELSE LET g == Greatest(starts)
                 j == GroupEnd(s, g)
             IN  [ok |-> TRUE, group |-> SubSeq(s, g, j - 1),
                  end |-> IF j <= Len(s) /\ Ch(s, j) = "." THEN j + 1 ELSE j]

\* the pattern at position i: the first alternative that leads to a match
MatchAt(s, alts, i) ==
    LET good == {k \in 1..Len(alts) :
                    StartsAtI(s, alts[k], i) /\ TailMatch(s, i + Len(alts[k])).ok}
    IN  IF good = {} THEN NoMatch
        ELSE TailMatch(s, i + Len(alts[Least(good)]))

\* the captured groups of the non-overlapping matches, left to right
RECURSIVE FindIter(_, _, _)
FindIter(s, alts, from) ==
    LET hits == {i \in from..Len(s) : MatchAt(s, alts, i).ok}
    IN  IF hits = {} THEN <<>>
        ELSE LET m == MatchAt(s, alts, Least(hits))
             IN  <<m.group>> \o FindIter(s, alts, m.end)

(***************************************************************************)
(* RequirementsExtractor.extract_requirements                              *)
(***************************************************************************)
\* req = match.group(1).strip(); if len(req) > 10: requirements.append(req)
KeepLong(groups) ==
    SelectSeq([k \in 1..Len(groups) |-> Strip(groups[k])], LAMBDA r : Len(r) > MinLen)

RECURSIVE PatternPassFrom(_, _)
PatternPassFrom(text, k) ==
    IF k > Len(requirement_patterns) THEN <<>>
    ELSE KeepLong(FindIter(text, requirement_patterns[k], 1))
         \o PatternPassFrom(text, k + 1)

\* the loop over self.requirement_patterns
PatternPass(text) == PatternPassFrom(text, 1)

\* the loop over doc.sents
SentencePass(text, lx) ==
    LET sentences == [k \in 1..Len(Sents(text, lx)) |-> Strip(Sents(text, lx)[k])]
    IN  SelectSeq(sentences,
                  LAMBDA sent : /\ ContainsAny(Lower(sent), action_verbs)
                                /\ ContainsAny(Lower(sent), actor_keywords))

Returned(v) == [raised |-> FALSE, value |-> v]
Raised(e) == [raised |-> TRUE, value |-> e]

\* no except clause: the exception leaves the function
SwallowMutant(r, kept) == r

\* `except Exception as e: print(...)`: the exception ends the try block
\* and is dropped; `kept` is what the block had assigned before it raised
Swallow(r, kept) == IF r.raised THEN Returned(kept) ELSE r

\* the try block of extract_requirements
SentenceTry(text, lx) ==
    IF lx.throws # "parse" THEN Returned(SentencePass(text, lx)) ELSE Raised("nlp")

\* the list `requirements` before the duplicates are removed
extract_candidates(text0, nlpLoaded, lx) ==
    LET text == Lower(text0)
        ling == IF nlpLoaded THEN Swallow(SentenceTry(text, lx), <<>>)
                ELSE Returned(<<>>)
    IN  IF ling.raised THEN ling
        ELSE Returned(PatternPass(text) \o ling.value)

Rotate(xs, k) == [i \in 1..Len(xs) |-> xs[((i - 1 + k) % Len(xs)) + 1]]

\* list(set(requirements)): the distinct elements in an order the hash of
\* the strings decides; the orders considered are the cyclic shifts of the
\* order of first occurrence
SetOrders(xs) ==
    LET d == Dedup(xs)
    IN  IF Len(d) = 0 THEN {<<>>} ELSE {Rotate(d, k) : k \in 0..(Len(d) - 1)}

\* the outcomes of extract_requirements: the lists it may return
extract_requirements(text, nlpLoaded, lx) ==
    LET c == extract_candidates(text, nlpLoaded, lx)
    IN  IF c.raised THEN {c} ELSE {Returned(o) : o \in SetOrders(c.value)}

(***************************************************************************)
(* RequirementsExtractor.generate_user_story                               *)
(***************************************************************************)
\* the first token whose lowercased text is an actor keyword, else dflt
RECURSIVE FirstActor(_, _, _)
FirstActor(toks, k, dflt) ==
    IF k > Len(toks) THEN dflt
    ELSE IF Lower(toks[k]) \in Range(actor_keywords) THEN Lower(toks[k])
    ELSE FirstActor(toks, k + 1, dflt)

\* shortest verb phrase that replaces the default action is longer than this
MinPhrase == 5

\* the loop over the tokens tagged VERB
VerbPhrase(requirement, lx) ==
    LET toks == Tokens(requirement)
    IN  IF lx.verbAt \in 1..Len(toks)
        THEN LET verb_phrase == Join(Subtree(toks, lx))
             IN  IF Len(verb_phrase) > MinPhrase THEN verb_phrase ELSE requirement
        ELSE requirement

\* end of the run of characters other than newline that starts at i
LineEnd(s, i) ==
    Least({j \in i..(Len(s) + 1) : j = Len(s) + 1 \/ Ch(s, j) = "\n"} \cup {Len(s) + 1}) - 1

\* the pattern written <lit>\s*(.+): no whitespace needed after the literal
BenefitAtMutant(s, lit, i) ==
    IF ~StartsAtI(s, lit, i) THEN NoMatch
    ELSE LET p == i + Len(lit)
             e == SpaceRunEnd(s, p)
             starts == {g \in p..(e + 1) : g <= Len(s) /\ Ch(s, g) # "\n"}
         IN  IF starts = {} THEN NoMatch
             ELSE LET g == Greatest(starts)
                  IN  [ok |-> TRUE, group |-> SubSeq(s, g, LineEnd(s, g)),
                       end |-> LineEnd(s, g) + 1]

\* <lit>\s+(.+) at position i under re.IGNORECASE: \s+ and (.+) are greedy
BenefitAt(s, lit, i) ==
    IF ~StartsAtI(s, lit, i) THEN NoMatch
    ELSE LET p == i + Len(lit)
             e == SpaceRunEnd(s, p)
             starts == {g \in (p + 1)..(e + 1) : g <= Len(s) /\ Ch(s, g) # "\n"}
         IN  IF starts = {} THEN NoMatch
             ELSE LET g == Greatest(starts)
                  IN  [ok |-> TRUE, group |-> SubSeq(s, g, LineEnd(s, g)),
                       end |-> LineEnd(s, g) + 1]

\* re.search(<lit>\s+(.+), s, re.IGNORECASE): the leftmost match
BenefitSearch(s, lit) ==
    LET hits == {i \in 1..Len(s) : BenefitAt(s, lit, i).ok}
    IN  IF hits = {} THEN NoMatch ELSE BenefitAt(s, lit, Least(hits))

benefit_patterns == <<"to", "so that", "in order to">>

DefaultBenefit == "improve the process"

\* the loop over benefit_patterns: the first pattern that matches wins
Benefit(requirement) ==
    LET good == {k \in 1..Len(benefit_patterns) :
                    BenefitSearch(requirement, benefit_patterns[k]).ok}
    IN  IF good = {} THEN DefaultBenefit
        ELSE Strip(BenefitSearch(requirement, benefit_patterns[Least(good)]).group)

\* the try block of generate_user_story; the value is what actor and
\* action hold when the block is left
StoryTry(requirement, lx) ==
    [raised |-> lx.throws # "no",
     value |-> [actor |-> IF lx.throws = "parse" THEN "user"
                          ELSE FirstActor(Tokens(requirement), 1, "user"),
                action |-> IF lx.throws = "no" THEN VerbPhrase(requirement, lx)
                           ELSE requirement]]

generate_user_story(requirement, nlpLoaded, lx) ==
    LET dflt == [actor |-> "user", action |-> requirement]
        ling == IF nlpLoaded
                THEN Swallow(StoryTry(requirement, lx), StoryTry(requirement, lx).value)
                ELSE Returned(dflt)
    IN  IF ling.raised THEN ling
        ELSE Returned("As a " \o ling.value.actor
                      \o ", I want to " \o ling.value.action
                      \o " so that I can " \o Benefit(requirement))

(***************************************************************************)
(* RequirementsExtractor.generate_acceptance_criteria                      *)
(***************************************************************************)
\* (.+?) so that  from g: the first j > g where " so that" starts, 0 when a
\* newline is met first or the text ends
ActionEnd(s, g) ==
    LET stops == {j \in (g + 1)..Len(s) : StartsAt(s, " so that", j)}
    IN  IF stops = {} \/ \E x \in g..(Least(stops) - 1) : Ch(s, x) = "\n"
        THEN 0 ELSE Least(stops)

\* "I want to (.+?) so that" at position i
ActionAt(s, i) ==
    LET g == i + Len("I want to ")
    IN  IF StartsAt(s, "I want to ", i) /\ g <= Len(s) /\ ActionEnd(s, g) # 0
        THEN [ok |-> TRUE, group |-> SubSeq(s, g, ActionEnd(s, g) - 1),
              end |-> ActionEnd(s, g) + Len(" so that")]
        ELSE NoMatch

\* re.search(r"I want to (.+?) so that", user_story)
ActionSearch(s) ==
    LET hits == {i \in 1..Len(s) : ActionAt(s, i).ok}
    IN  IF hits = {} THEN NoMatch ELSE ActionAt(s, Least(hits))

\* s.split(): the maximal runs of characters that are not whitespace
RECURSIVE SplitFrom(_, _)
SplitFrom(s, i0) ==
    LET i == SpaceRunEnd(s, i0) + 1
        e == Least({j \in i..(Len(s) + 1) : j = Len(s) + 1 \/ IsSpace(Ch(s, j))}
                   \cup {Len(s) + 1}) - 1
    IN  IF i > Len(s) THEN <<>>
        ELSE <<SubSeq(s, i, e)>> \o SplitFrom(s, e + 1)

Split(s) == SplitFrom(s, 1)

CreateWords == <<"create", "add", "submit">>
UpdateWords == <<"update", "edit", "modify">>
DeleteWords == <<"delete", "remove">>

CreateBlock ==
    <<"AND all required fields must be validated",
      "AND success message should be displayed">>
UpdateBlock ==
    <<"AND changes should be saved to the database",
      "AND audit trail should be updated">>
DeleteBlock ==
    <<"AND confirmation dialog should be shown",
      "AND related data should be handled appropriately">>

\* the three checks chained with elif: only the first matching block
CategoryBlocksMutant(action) ==
    IF ContainsAny(action, CreateWords) THEN CreateBlock
    ELSE IF ContainsAny(action, UpdateWords) THEN UpdateBlock
    ELSE IF ContainsAny(action, DeleteWords) THEN DeleteBlock
    ELSE <<>>

\* the three `if any(word in action ...)` statements
CategoryBlocks(action) ==
    (IF ContainsAny(action, CreateWords) THEN CreateBlock ELSE <<>>)
    \o (IF ContainsAny(action, UpdateWords) THEN UpdateBlock ELSE <<>>)
    \o (IF ContainsAny(action, DeleteWords) THEN DeleteBlock ELSE <<>>)

generate_acceptance_criteria(user_story) ==
    LET match == ActionSearch(user_story)
        action == match.group
    IN  IF ~match.ok THEN Returned(<<>>)
        ELSE IF Split(action) = <<>> THEN Raised("IndexError")
        ELSE Returned(
               <<"GIVEN the " \o Split(action)[1] \o " feature is available",
                 "WHEN the user attempts to " \o action,
                 "THEN the system should successfully " \o action>>
               \o CategoryBlocks(action))

(***************************************************************************)
(* extract_stakeholders                                                    *)
(***************************************************************************)
\* (\w+\s+)?<word> when opt, else the literal <word>
role_patterns ==
    << [opt |-> TRUE, word |-> "manager"],
       [opt |-> TRUE, word |-> "director"],
       [opt |-> TRUE, word |-> "lead"],
       [opt |-> TRUE, word |-> "team"],
       [opt |-> FALSE, word |-> "product owner"],
       [opt |-> FALSE, word |-> "business analyst"],
       [opt |-> FALSE, word |-> "developer"],
       [opt |-> FALSE, word |-> "tester"] >>

\* the pattern at position i: first with the optional group, then without
RoleAt(s, pat, i) ==
    LET w == WordRunEnd(s, i)
        e == SpaceRunEnd(s, w + 1)
    IN  IF pat.opt /\ w >= i /\ e > w /\ StartsAtI(s, pat.word, e + 1)
        THEN [ok |-> TRUE, group |-> SubSeq(s, i, e + Len(pat.word)),
              end |-> e + Len(pat.word) + 1]
        ELSE IF StartsAtI(s, pat.word, i)
        THEN [ok |-> TRUE, group |-> SubSeq(s, i, i + Len(pat.word) - 1),
              end |-> i + Len(pat.word)]
        ELSE NoMatch

\* re.finditer(pattern, text, re.IGNORECASE): match.group(0) of every match
RECURSIVE RoleIter(_, _, _)
RoleIter(s, pat, from) ==
    LET hits == {i \in from..Len(s) : RoleAt(s, pat, i).ok}
    IN  IF hits = {} THEN <<>>
        ELSE LET m == RoleAt(s, pat, Least(hits))
             IN  <<m.group>> \o RoleIter(s, pat, m.end)

\* the loop over role_patterns
RoleMatches(text) ==
    UNION { {Title(Strip(g)) : g \in Range(RoleIter(text, role_patterns[k], 1))}
            : k \in 1..Len(role_patterns) }

\* the PERSON entities of the doc
Persons(text, lx) == {n \in lx.persons : Contains(text, n)}

\* the try block of extract_stakeholders
PersonsTry(text, lx) ==
    IF lx.throws # "parse" THEN Returned(Persons(text, lx)) ELSE Raised("nlp")

\* returns list(stakeholders); the value kept is the set of its elements
extract_stakeholders(text, nlpLoaded, lx) ==
    LET ling == IF nlpLoaded THEN Swallow(PersonsTry(text, lx), {}) ELSE Returned({})
    IN  IF ling.raised THEN ling
        ELSE Returned(ling.value \cup RoleMatches(text))

(***************************************************************************)
(* The service layer: module state and the requests the model sends.       *)
(***************************************************************************)
\* value of a JSON key that is absent: dict.get returns None
None == "<None>"

T1 == "We need to let users reset their password."

T6 == "we need to create new orders. we want to update user profiles. it should delete old records. must have audit log export. looking for faster search tools. the system should track all changes."

\* transcripts sent to /analyze_transcript
Transcripts == {"", "hello team", T1, T6}

\* request.json of /analyze_transcript: the key may be missing
AnalyzeBodies == {<<>>} \cup {[transcript |-> t] : t \in Transcripts}

Methods == {"POST", "OPTIONS"}

TrackedFields == <<"user_story", "status", "priority">>

EditedStory == "As a user, I want to sign in so that I can work"

FieldValues ==
    [user_story |-> {EditedStory},
     status |-> {"Draft", "Approved"},
     priority |-> {"Urgent"}]

UpdateIds == {"REQ-002", "REQ-404"}

\* a request that also names fields the handler does not track
UntrackedBody ==
    [id |-> "REQ-002", status |-> "Approved",
     original_requirement |-> "edited", created_date |-> 0]

\* request.json of /update_requirement: nothing, an id that is stored with
\* any of the tracked fields, or an id that is not stored
UpdateBodies ==
    {<<>>} \cup {UntrackedBody} \cup
    UNION { {d \in [F \cup {"id"} -> UpdateIds \cup UNION {FieldValues[f] : f \in F}] :
               /\ d["id"] \in UpdateIds
               /\ d["id"] = "REQ-404" => F \subseteq {"status"}
               /\ \A f \in F : d[f] \in FieldValues[f]}
            : F \in SUBSET Range(TrackedFields) }

\* dict.get(key, dflt)
Get(d, key, dflt) == IF key \in DOMAIN d THEN d[key] ELSE dflt

\* nlp = None: spacy.load failed
NlpNone == [loaded |-> FALSE]

\* the values of the module variable nlp
Nlps == {NlpNone} \cup Backends

\* the backends the service layer is run with: one that raises on every
\* text and one that splits sentences at full stops, tags the first token
\* as the verb of the whole text and reports every person
ServiceBackends ==
    {lx \in Backends :
        \/ lx.throws = "parse"
        \/ /\ lx.throws = "no" /\ lx.sents = "period" /\ lx.verbAt = 1
           /\ lx.span = "right" /\ lx.persons = PersonNames}

ServiceNlps == {NlpNone} \cup ServiceBackends

\* `if nlp:`
Loaded(n) == n # NlpNone

\* the outcome passed for nlp = None: it is never consulted
Lx(n) == IF Loaded(n) THEN n
         ELSE [throws |-> "no", sents |-> "whole", verbAt |-> 0, span |-> "self",
               persons |-> {}]

(***************************************************************************)
(* The core functions are pure: their results over the transcripts the     *)
(* model sends are computed once and looked up by the handlers.            *)
(***************************************************************************)
\* the pairs <<k, f[k]>> of the function f, every value computed
Tabulated(f) == {<<k, f[k]>> : k \in DOMAIN f}

\* the value a table of pairs holds for the key k
Lookup(tbl, k) == (CHOOSE p \in tbl : p[1] = k)[2]

ExtractedTable ==
    Tabulated([t \in Transcripts, n \in ServiceNlps |->
                extract_requirements(t, Loaded(n), Lx(n))])

Extracted ==
    [t \in Transcripts, n \in ServiceNlps |-> Lookup(ExtractedTable, <<t, n>>)]

\* every requirement string an extraction of the model returns
Requirements ==
    UNION {Range(r.value) : r \in {r \in UNION {p[2] : p \in ExtractedTable} : ~r.raised}}

StoriesTable ==
    Tabulated([r \in Requirements, n \in ServiceNlps |->
                generate_user_story(r, Loaded(n), Lx(n))])

Stories ==
    [r \in Requirements, n \in ServiceNlps |-> Lookup(StoriesTable, <<r, n>>)]

StoryTexts == {p[2].value : p \in {p \in StoriesTable : ~p[2].raised}}

CriteriaTable ==
    Tabulated([st \in StoryTexts |-> generate_acceptance_criteria(st)])

Criteria == [st \in StoryTexts |-> Lookup(CriteriaTable, st)]

StakeholdersTable ==
    Tabulated([t \in Transcripts, n \in ServiceNlps |->
                extract_stakeholders(t, Loaded(n), Lx(n))])

Stakeholders ==
    [t \in Transcripts, n \in ServiceNlps |-> Lookup(StakeholdersTable, <<t, n>>)]

JsonResponse(code, body) == [code |-> code, body |-> body]

NoResponse == JsonResponse(0, <<>>)
NoCall == [fn |-> "none"]

\* module level: nlp = spacy.load(...) or None, the stores are empty lists
Init ==
    /\ requirements_db = <<>>
    /\ changes_log = <<>>
    /\ nlp \in ServiceNlps
    /\ clock = 0
    /\ response = NoResponse
    /\ call = NoCall

(***************************************************************************)
(* analyze_transcript                                                      *)
(***************************************************************************)
RECURSIVE Decimal(_)
Decimal(n) == IF n < 10 THEN Ch(Digits, n + 1)
              ELSE Decimal(n \div 10) \o Ch(Digits, (n % 10) + 1)

\* f'{n:03d}'
Pad3(n) ==
    IF Len(Decimal(n)) >= 3 THEN Decimal(n)
    ELSE SubSeq("00", 1, 3 - Len(Decimal(n))) \o Decimal(n)

\* f'REQ-{n:03d}'
ReqId(n) == "REQ-" \o Pad3(n)

\* the id numbers the batch from 1 instead of after the stored records
NextIdMutant(db, i) == ReqId(i)

\* f'REQ-{len(requirements_db) + i:03d}'
NextId(db, i) == ReqId(Len(db) + i)

\* requirements[:5]
DemoLimit == 5

Min(a, b) == IF a <= b THEN a ELSE b

\* the result dict of one requirement, unless generate_acceptance_criteria raised
Result(req, id, now, user_story, acceptance_criteria) ==
    IF acceptance_criteria.raised THEN acceptance_criteria
    ELSE Returned([id |-> id,
                   original_requirement |-> req,
                   user_story |-> user_story,
                   acceptance_criteria |-> acceptance_criteria.value,
                   created_date |-> now,
                   status |-> "Draft",
                   priority |-> "Medium"])

\* the criteria of the story, unless generate_user_story raised
StoryResult(req, id, now, user_story) ==
    IF user_story.raised THEN user_story
    ELSE Result(req, id, now, user_story.value, Criteria[user_story.value])

\* the body of the loop over enumerate(requirements[:5], 1)
NewRecord(req, i, db, n, now) ==
    StoryResult(req, NextId(db, i), now + i, Stories[req, n])

NewRecords(requirements, db, n, now) ==
    [i \in 1..Min(Len(requirements), DemoLimit) |->
        NewRecord(requirements[i], i, db, n, now)]

\* the check written `if transcript is None:`
NotTranscriptMutant(transcript) == transcript = None

\* `if not transcript:`
NotTranscript(transcript) == transcript = ""

EmptyMessage ==
    "No requirements found. Try using phrases like \"we need to\", \"the system should\", \"users must be able to\""

\* requirements_db.extend(results), extract_stakeholders and the response;
\* an exception raised in the loop or after it is answered with 500
StoreResults(requirements, results, stakeholders) ==
    IF \E i \in DOMAIN results : results[i].raised
    THEN /\ response' = JsonResponse(500,
                [error |-> results[CHOOSE i \in DOMAIN results :
                                    results[i].raised].value])
         /\ UNCHANGED <<requirements_db, changes_log, clock>>
    ELSE /\ Len(requirements_db) + Len(results) <= MaxDb
         /\ requirements_db' =
                requirements_db \o [i \in DOMAIN results |-> results[i].value]
         /\ IF stakeholders.raised
            THEN response' = JsonResponse(500, [error |-> stakeholders.value])
            ELSE response' = JsonResponse(200,
                    [requirements |-> [i \in DOMAIN results |-> results[i].value],
                     stakeholders |-> stakeholders.value,
                     total_found |-> Len(requirements)])
         /\ clock' = clock + Len(results)
         /\ UNCHANGED changes_log

analyze_transcript(method, data) ==
    LET transcript == Get(data, "transcript", "")
    IN
    /\ UNCHANGED <<nlp, call>>
    /\ IF method = "OPTIONS"
       THEN /\ response' = JsonResponse(200, <<>>)
            /\ UNCHANGED <<requirements_db, changes_log, clock>>
       ELSE IF NotTranscript(transcript)
       THEN /\ response' = JsonResponse(400, [error |-> "No transcript provided"])
            /\ UNCHANGED <<requirements_db, changes_log, clock>>
       ELSE \E extracted \in Extracted[transcript, nlp] :
            IF extracted.raised
            THEN /\ response' = JsonResponse(500, [error |-> extracted.value])
                 /\ UNCHANGED <<requirements_db, changes_log, clock>>
            ELSE IF extracted.value = <<>>
            THEN /\ response' = JsonResponse(200,
                        [requirements |-> <<>>, stakeholders |-> {},
                         total_found |-> 0, message |-> EmptyMessage])
                 /\ UNCHANGED <<requirements_db, changes_log, clock>>
            ELSE StoreResults(extracted.value,
                              NewRecords(extracted.value, requirements_db, nlp, clock),
                              Stakeholders[transcript, nlp])

AnalyzeTranscript ==
    \E method \in Methods, data \in AnalyzeBodies : analyze_transcript(method, data)

(***************************************************************************)
(* update_requirement                                                      *)
(***************************************************************************)
\* every field present in the request counts as changed
ChangedFieldsMutant(data, req) ==
    SelectSeq(TrackedFields, LAMBDA f : f \in DOMAIN data)

\* the fields the loop changes: present in the request and different
ChangedFields(data, req) ==
    SelectSeq(TrackedFields, LAMBDA f : f \in DOMAIN data /\ data[f] # req[f])

\* the loop written req.update(data): every key of the request is stored
UpdatedMutant(data, req) ==
    [k \in DOMAIN req |-> IF k \in DOMAIN data THEN data[k] ELSE req[k]]

\* req after the loop over the tracked fields
Updated(data, req) ==
    [k \in DOMAIN req |->
        IF k \in Range(ChangedFields(data, req)) THEN data[k] ELSE req[k]]

\* change['changes']
ChangeEntries(data, req) ==
    [n \in 1..Len(ChangedFields(data, req)) |->
        [field |-> ChangedFields(data, req)[n],
         old_value |-> req[ChangedFields(data, req)[n]],
         new_value |-> data[ChangedFields(data, req)[n]]]]

\* for req in requirements_db: if req['id'] == req_id  (0: no such record)
FindRecord(db, req_id) ==
    IF \E k \in DOMAIN db : db[k].id = req_id
    THEN CHOOSE k \in DOMAIN db :
            db[k].id = req_id /\ \A j \in 1..(k - 1) : db[j].id # req_id
    ELSE 0

update_requirement(data) ==
    LET req_id == Get(data, "id", None)
        k == FindRecord(requirements_db, req_id)
    IN
    /\ UNCHANGED <<nlp, call>>
    /\ IF k = 0
       THEN /\ response' = JsonResponse(404, [error |-> "Requirement not found"])
            /\ UNCHANGED <<requirements_db, changes_log, clock>>
       ELSE LET req == requirements_db[k]
                change == [requirement_id |-> req_id,
                           timestamp |-> clock + 1,
                           changes |-> ChangeEntries(data, req)]
            IN  /\ requirements_db' = [requirements_db EXCEPT ![k] = Updated(data, req)]
                /\ IF change.changes # <<>>
                   THEN /\ Len(changes_log) < MaxLog
                        /\ changes_log' = Append(changes_log, change)
                        /\ clock' = clock + 1
                   ELSE UNCHANGED <<changes_log, clock>>
                /\ response' = JsonResponse(200,
                        [success |-> TRUE, requirement |-> Updated(data, req)])

UpdateRequirement == \E data \in UpdateBodies : update_requirement(data)

Next == AnalyzeTranscript \/ UpdateRequirement

Spec == Init /\ [][Next]_vars

(***************************************************************************)
(* The core called as a library: a caller hands one input to one of the    *)
(* four functions and gets the result back.                                *)
(***************************************************************************)
SpecExample ==
    "We need to let users reset their password. The system should notify the admin team."

\* texts handed to extract_requirements
CoreTexts ==
    {"", "hello team", "user view", SpecExample, T6,
     "we need to abcdefghi.", "we need to abcdefghij.", "we need to abcdefghijk.",
     "We need to   export all reports  . it should",
     "The admin must approve it. Users must be able to track orders",
     "we need to create new orders. We need to create new orders.",
     "it should be fast\nwe want to add more things here\n"}

\* requirements handed to generate_user_story
CoreRequirements ==
    {"let users reset their password", "notify the admin team", "create new orders",
     "The Manager can view reports so that   costs drop", "auto fill forms",
     "export data in order to audit", "go to ", "delete it", "x", "user view",
     "the customer, not the vendor, signs"}

\* stories handed to generate_acceptance_criteria
CoreStories ==
    {"As a user, I want to create new orders so that I can improve the process",
     "As a user, I want to view reports so that I can improve the process",
     "As a admin, I want to update it so that I can work",
     "As a user, I want to create and delete things so that I can clean up",
     "As a user, I want to modify, remove or submit so that I can go",
     "As a user, I want to Create so that I can improve the process",
     "I want to x so that", "I want to   so that", "I want to  so that",
     "no action clause", "I want to a\n so that b",
     "As a user, I want to edit so that so that I can add"}

\* texts handed to extract_stakeholders
StakeTexts ==
    {"", "no roles here", "Project Manager Jane Smith will review this.",
     "the QA lead and the dev team lead", "manager team",
     "product owner, Business Analyst; developers and testers"}

CoreInit ==
    /\ requirements_db = <<>>
    /\ changes_log = <<>>
    /\ nlp \in Nlps
    /\ clock = 0
    /\ response = NoResponse
    /\ call = NoCall

Called(fn, arg, result) == [fn |-> fn, arg |-> arg, result |-> result]

CallExtract ==
    /\ call = NoCall
    /\ \E text \in CoreTexts :
         \E r \in extract_requirements(text, Loaded(nlp), Lx(nlp)) :
            call' = Called("extract_requirements", text, r)
    /\ UNCHANGED <<requirements_db, changes_log, nlp, clock, response>>

CallStory ==
    /\ call = NoCall
    /\ \E requirement \in CoreRequirements :
         call' = Called("generate_user_story", requirement,
                        generate_user_story(requirement, Loaded(nlp), Lx(nlp)))
    /\ UNCHANGED <<requirements_db, changes_log, nlp, clock, response>>

CallCriteria ==
    /\ call = NoCall
    /\ \E user_story \in CoreStories :
         call' = Called("generate_acceptance_criteria", user_story,
                        generate_acceptance_criteria(user_story))
    /\ UNCHANGED <<requirements_db, changes_log, nlp, clock, response>>

CallStakeholders ==
    /\ call = NoCall
    /\ \E text \in StakeTexts :
         call' = Called("extract_stakeholders", text,
                        extract_stakeholders(text, Loaded(nlp), Lx(nlp)))
    /\ UNCHANGED <<requirements_db, changes_log, nlp, clock, response>>

\* the caller takes the result
Return ==
    /\ call # NoCall
    /\ call' = NoCall
    /\ UNCHANGED <<requirements_db, changes_log, nlp, clock, response>>

CoreNext == CallExtract \/ CallStory \/ CallCriteria \/ CallStakeholders \/ Return

SpecCore == CoreInit /\ [][CoreNext]_vars

(***************************************************************************)
(* The service as app.run serves it: each request is handled by a thread   *)
(* of its own, and nothing guards requirements_db.  A thread's frame holds *)
(* the locals of analyze_transcript between two of its accesses to the     *)
(* shared list; call maps each thread to its frame, response to the last   *)
(* answer it sent.                                                         *)
(***************************************************************************)
Threads == {1, 2}

\* a thread that is not inside a request
Idle == [pc |-> "idle"]

ConcInit ==
    /\ requirements_db = <<>>
    /\ changes_log = <<>>
    /\ nlp \in ServiceNlps
    /\ clock = 0
    /\ response = [t \in Threads |-> NoResponse]
    /\ call = [t \in Threads |-> Idle]

\* the answer of thread t ends its request
Answer(t, r) ==
    /\ response' = [response EXCEPT ![t] = r]
    /\ call' = [call EXCEPT ![t] = Idle]

\* the number of records thread t is about to store
Pending(t) ==
    IF call[t].pc = "loop" THEN Min(Len(call[t].requirements), DemoLimit) ELSE 0

RECURSIVE Sum(_, _)
Sum(f, S) ==
    IF S = {} THEN 0
    ELSE LET x == CHOOSE x \in S : TRUE IN f[x] + Sum(f, S \ {x})

\* the records stored and about to be stored
Claimed == Len(requirements_db) + Sum([t \in Threads |-> Pending(t)], Threads)

\* lines 301-324: the request up to the loop over requirements[:5]
Receive(t, method, data) ==
    LET transcript == Get(data, "transcript", "")
    IN
    /\ call[t].pc = "idle"
    /\ UNCHANGED <<nlp, requirements_db, changes_log, clock>>
    /\ IF method = "OPTIONS"
       THEN Answer(t, JsonResponse(200, <<>>))
       ELSE IF NotTranscript(transcript)
       THEN Answer(t, JsonResponse(400, [error |-> "No transcript provided"]))
       ELSE \E extracted \in Extracted[transcript, nlp] :
            IF extracted.raised
            THEN Answer(t, JsonResponse(500, [error |-> extracted.value]))
            ELSE IF extracted.value = <<>>
            THEN Answer(t, JsonResponse(200,
                        [requirements |-> <<>>, stakeholders |-> {},
                         total_found |-> 0, message |-> EmptyMessage]))
            ELSE /\ Claimed + Min(Len(extracted.value), DemoLimit) <= MaxDb
                 /\ call' = [call EXCEPT ![t] =
                        [pc |-> "loop", transcript |-> transcript,
                         requirements |-> extracted.value, results |-> <<>>]]
                 /\ UNCHANGED response

\* the result of one iteration is appended to results, or its exception
\* is answered with 500
Iterated(t, result) ==
    IF result.raised
    THEN /\ Answer(t, JsonResponse(500, [error |-> result.value]))
         /\ UNCHANGED clock
    ELSE /\ call' = [call EXCEPT ![t].results = Append(@, result.value)]
         /\ clock' = clock + 1
         /\ UNCHANGED response

\* lines 325-338: one iteration of the loop; len(requirements_db) is read
\* when the id is formatted
Iterate(t) ==
    /\ call[t].pc = "loop"
    /\ Len(call[t].results) < Min(Len(call[t].requirements), DemoLimit)
    /\ UNCHANGED <<nlp, requirements_db, changes_log>>
    /\ Iterated(t, NewRecord(call[t].requirements[Len(call[t].results) + 1],
                             Len(call[t].results) + 1, requirements_db, nlp, clock))

\* the answer after the extend
Extended(t, results, requirements, stakeholders) ==
    IF stakeholders.raised
    THEN Answer(t, JsonResponse(500, [error |-> stakeholders.value]))
    ELSE Answer(t, JsonResponse(200,
                [requirements |-> results, stakeholders |-> stakeholders.value,
                 total_found |-> Len(requirements)]))

\* lines 341-350: requirements_db.extend(results) and the response
Extend(t) ==
    /\ call[t].pc = "loop"
    /\ Len(call[t].results) = Min(Len(call[t].requirements), DemoLimit)
    /\ requirements_db' = requirements_db \o call[t].results
    /\ UNCHANGED <<nlp, changes_log, clock>>
    /\ Extended(t, call[t].results, call[t].requirements,
                Stakeholders[call[t].transcript, nlp])

ConcNext ==
    \E t \in Threads :
        \/ \E method \in Methods, data \in AnalyzeBodies : Receive(t, method, data)
        \/ Iterate(t)
        \/ Extend(t)

SpecConc == ConcInit /\ [][ConcNext]_vars

(***************************************************************************)
(* Properties of the core functions, checked under SpecCore.               *)
(***************************************************************************)
IsCall(fn) == call # NoCall /\ call.fn = fn

EndsWith(s, suffix) ==
    Len(suffix) <= Len(s) /\ SubSeq(s, Len(s) - Len(suffix) + 1, Len(s)) = suffix

\* the trimmed captured group of every match of every requirement pattern
\* in the lowercased text, whatever its length
CapturedGroups(text) ==
    UNION { {Strip(g) : g \in Range(FindIter(Lower(text), requirement_patterns[k], 1))}
            : k \in 1..Len(requirement_patterns) }

\* the backend is absent, or it raises somewhere in the call
Degraded == ~Loaded(nlp) \/ nlp.throws # "no"

\* C4: no string returned by extract_requirements is shorter than 10
\* characters, whether the linguistic pass is absent, runs or raises.
C4_NoShortResult ==
    IsCall("extract_requirements") =>
        /\ ~call.result.raised
        /\ \A r \in Range(call.result.value) : Len(r) >= 10

\* a story has a match for  I want to <action> so that  on one line
HasActionClause(story) ==
    \E i \in 1..Len(story), j \in 1..Len(story) :
        /\ StartsAt(story, "I want to ", i)
        /\ j > i + Len("I want to ")
        /\ StartsAt(story, " so that", j)
        /\ \A x \in (i + Len("I want to "))..(j - 1) : Ch(story, x) # "\n"

\* C5: generate_acceptance_criteria never fails: it returns the empty list
\* for a story without an action clause, and otherwise at least three items
\* that start with the GIVEN, WHEN and THEN statements.
C5_CriteriaNeverFail ==
    IsCall("generate_acceptance_criteria") =>
        /\ ~call.result.raised
        /\ ~HasActionClause(call.arg) => call.result.value = <<>>
        /\ HasActionClause(call.arg) =>
             /\ Len(call.result.value) >= 3
             /\ StartsAt(call.result.value[1], "GIVEN the ", 1)
             /\ StartsAt(call.result.value[2], "WHEN the user attempts to ", 1)
             /\ StartsAt(call.result.value[3], "THEN the system should successfully ", 1)

\* a benefit pattern has a match in the requirement: the literal, at least
\* one whitespace character, then a character other than newline
BenefitCue(requirement) ==
    \E k \in 1..Len(benefit_patterns), i \in 1..Len(requirement),
       g \in 1..Len(requirement) :
        /\ StartsAtI(requirement, benefit_patterns[k], i)
        /\ g > i + Len(benefit_patterns[k])
        /\ \A x \in (i + Len(benefit_patterns[k]))..(g - 1) : IsSpace(Ch(requirement, x))
        /\ Ch(requirement, g) # "\n"

\* C6: generate_user_story returns "As a {actor}, I want to {action} so
\* that I can {benefit}"; without a backend the actor is "user" and the
\* action is the whole requirement; when no benefit pattern matches the
\* benefit is "improve the process".
C6_StoryShape ==
    IsCall("generate_user_story") /\ call.arg # "" =>
        LET story == call.result.value
        IN  /\ ~call.result.raised
            /\ \E actor \in Range(actor_keywords) :
                 \E j \in 1..Len(story) :
                    /\ StartsAt(story, "As a " \o actor \o ", I want to ", 1)
                    /\ j > Len("As a " \o actor \o ", I want to ")
                    /\ StartsAt(story, " so that I can ", j)
            /\ ~Loaded(nlp) =>
                 StartsAt(story, "As a user, I want to " \o call.arg \o " so that I can ", 1)
            /\ ~BenefitCue(call.arg) =>
                 EndsWith(story, " so that I can improve the process")
            /\ (~Loaded(nlp) /\ ~BenefitCue(call.arg)) =>
                 story = "As a user, I want to " \o call.arg
                         \o " so that I can improve the process"

C6_Witness ==
    /\ IsCall("generate_user_story")
    /\ ~Loaded(nlp)
    /\ call.arg = "create new orders"
    /\ call.result.value =
         "As a user, I want to create new orders so that I can improve the process"

\* the action text a returned list of criteria was built from
ActionOf(criteria) ==
    SubSeq(criteria[2], Len("WHEN the user attempts to ") + 1, Len(criteria[2]))

AllBlocks == CreateBlock \o UpdateBlock \o DeleteBlock

\* C7: the create, update and delete statements are appended independently,
\* each pair exactly when the action contains one of its keywords, after the
\* three baseline statements and in the order create, update, delete.
C7_IndependentCategories ==
    (IsCall("generate_acceptance_criteria") /\ ~call.result.raised
     /\ call.result.value # <<>>) =>
        LET criteria == call.result.value
            action == ActionOf(criteria)
            extra == SubSeq(criteria, 4, Len(criteria))
            has(words) == \E w \in words : Contains(action, w)
        IN  /\ Range(CreateBlock) \subseteq Range(extra) <=> has({"create", "add", "submit"})
            /\ Range(CreateBlock) \cap Range(extra) # {} <=> has({"create", "add", "submit"})
            /\ Range(UpdateBlock) \subseteq Range(extra) <=> has({"update", "edit", "modify"})
            /\ Range(UpdateBlock) \cap Range(extra) # {} <=> has({"update", "edit", "modify"})
            /\ Range(DeleteBlock) \subseteq Range(extra) <=> has({"delete", "remove"})
            /\ Range(DeleteBlock) \cap Range(extra) # {} <=> has({"delete", "remove"})
            /\ extra = SelectSeq(AllBlocks, LAMBDA c : c \in Range(extra))

C7_Witness ==
    /\ IsCall("generate_acceptance_criteria")
    /\ call.arg = "As a user, I want to create and delete things so that I can clean up"
    /\ ~call.result.raised
    /\ Len(call.result.value) = 7
    /\ call.result.value[4] = "AND all required fields must be validated"
    /\ call.result.value[6] = "AND confirmation dialog should be shown"

\* C8: with the backend absent or raising, none of the three functions
\* fails, extract_requirements returns every pattern candidate,
\* generate_user_story ends with the detected benefit, and
\* extract_stakeholders returns every role match title-cased.
C8_GracefulDegradation ==
    Degraded =>
        /\ IsCall("extract_requirements") =>
             /\ ~call.result.raised
             /\ \A g \in CapturedGroups(call.arg) :
                    Len(g) > MinLen => g \in Range(call.result.value)
        /\ IsCall("generate_user_story") =>
             /\ ~call.result.raised
             /\ BenefitCue(call.arg) =>
                  ~EndsWith(call.result.value, " so that I can improve the process")
             /\ call.arg = "export data in order to audit" =>
                  EndsWith(call.result.value, " so that I can audit")
             /\ call.arg = "The Manager can view reports so that   costs drop" =>
                  EndsWith(call.result.value, " so that I can costs drop")
        /\ IsCall("extract_stakeholders") =>
             /\ ~call.result.raised
             /\ call.arg = "Project Manager Jane Smith will review this." =>
                  "Project Manager" \in call.result.value
             /\ \A k \in 1..Len(role_patterns) :
                    Contains(Lower(call.arg), role_patterns[k].word) =>
                        \E label \in call.result.value :
                            Contains(label, Title(role_patterns[k].word))

C8_Witness ==
    /\ Loaded(nlp)
    /\ nlp.throws = "parse"
    /\ IsCall("extract_stakeholders")
    /\ call.arg = "Project Manager Jane Smith will review this."
    /\ call.result = Returned({"Project Manager"})

\* C10: every pattern match whose trimmed captured group has 10 or more
\* characters appears in the result of extract_requirements.
C10_KeepsTenOrMore ==
    IsCall("extract_requirements") =>
        \A g \in CapturedGroups(call.arg) :
            Len(g) >= 10 => g \in Range(call.result.value)

(***************************************************************************)
(* Properties of the service layer, checked under Spec.                    *)
(***************************************************************************)
\* the identifiers REQ-001, REQ-002, ... written out
IdList ==
    <<"REQ-001", "REQ-002", "REQ-003", "REQ-004", "REQ-005", "REQ-006",
      "REQ-007", "REQ-008", "REQ-009", "REQ-010", "REQ-011", "REQ-012">>

IdsInOrder == \A k \in 1..Len(requirements_db) : requirements_db[k].id = IdList[k]

IdsDistinct ==
    \A j, k \in 1..Len(requirements_db) :
        j # k => requirements_db[j].id # requirements_db[k].id

\* a POST of a transcript in which m > 0 requirements are found appends
\* min(m, 5) records with the next ids and keeps the records already stored
AppendsNextIds ==
    \A data \in AnalyzeBodies :
        (/\ analyze_transcript("POST", data)
         /\ response'.code = 200
         /\ response'.body.total_found > 0) =>
            LET n == Len(requirements_db)
                m == response'.body.total_found
            IN  /\ Len(requirements_db') = n + Min(m, 5)
                /\ SubSeq(requirements_db', 1, n) = requirements_db
                /\ \A i \in 1..Min(m, 5) : requirements_db'[n + i].id = IdList[n + i]

\* C1: under sequential calls the record at position k has id REQ-k, ids
\* are pairwise distinct, and a call that finds m requirements while the
\* store holds n records appends min(m, 5) records with ids REQ-(n+1) ..
\* REQ-(n+min(m,5)).
C1_SequentialIds == [](IdsInOrder /\ IdsDistinct) /\ [][AppendsNextIds]_vars

C1_Witness ==
    /\ Len(requirements_db) = 6
    /\ requirements_db[6].id = "REQ-006"
    /\ response.code = 200
    /\ "total_found" \in DOMAIN response.body
    /\ response.body.total_found > 5
    /\ Len(response.body.requirements) = 5

\* the tracked fields a request supplies with a value other than the
\* record's
Differing(data, req) ==
    {f \in {"user_story", "status", "priority"} : f \in DOMAIN data /\ data[f] # req[f]}

LogsExactlyTheChanges ==
    \A data \in UpdateBodies :
        (/\ \E k \in DOMAIN requirements_db : requirements_db[k].id = Get(data, "id", None)
         /\ update_requirement(data)) =>
            LET k == Least({j \in DOMAIN requirements_db :
                               requirements_db[j].id = data["id"]})
                req == requirements_db[k]
                diff == Differing(data, req)
            IN  /\ changes_log' # changes_log <=> diff # {}
                /\ diff = {} => changes_log' = changes_log
                /\ diff # {} =>
                     /\ Len(changes_log') = Len(changes_log) + 1
                     /\ SubSeq(changes_log', 1, Len(changes_log)) = changes_log
                     /\ LET entries == changes_log'[Len(changes_log')].changes
                        IN  /\ Len(entries) = Cardinality(diff)
                            /\ \A f \in diff :
                                 \E n \in 1..Len(entries) :
                                    entries[n] = [field |-> f, old_value |-> req[f],
                                                  new_value |-> data[f]]

\* C2: update_requirement on an existing record appends a ChangeRecord if
\* and only if a supplied tracked field differs from the record's value, and
\* the record appended has exactly one entry per changed field with the
\* value before and the value after.
C2_ChangeIffDiffers == [][LogsExactlyTheChanges]_vars

C2_Witness ==
    /\ Len(changes_log) = 1
    /\ changes_log[1].requirement_id = "REQ-002"
    /\ changes_log[1].changes =
         <<[field |-> "status", old_value |-> "Draft", new_value |-> "Approved"]>>
    /\ response.code = 200
    /\ "requirement" \in DOMAIN response.body
    /\ response.body.requirement.status = "Approved"

\* C3: every stored record has a status among Draft, Reviewed, Approved,
\* Rejected and a priority among Low, Medium, High.
C3_EnumsHold ==
    \A k \in 1..Len(requirements_db) :
        /\ requirements_db[k].status \in {"Draft", "Reviewed", "Approved", "Rejected"}
        /\ requirements_db[k].priority \in {"Low", "Medium", "High"}

\* no requirement is found in the transcript, by any backend outcome
NothingFound(transcript) ==
    \A r \in Extracted[transcript, nlp] : ~r.raised /\ r.value = <<>>

InvalidVersusEmpty ==
    \A data \in AnalyzeBodies :
        analyze_transcript("POST", data) =>
            /\ ("transcript" \notin DOMAIN data \/ data.transcript = "") =>
                 /\ response'.code = 400
                 /\ response'.body = [error |-> "No transcript provided"]
                 /\ UNCHANGED <<requirements_db, changes_log>>
            /\ ("transcript" \in DOMAIN data /\ data.transcript # ""
                /\ NothingFound(data.transcript)) =>
                 /\ response'.code = 200
                 /\ "error" \notin DOMAIN response'.body
                 /\ response'.body.requirements = <<>>
                 /\ response'.body.total_found = 0
                 /\ UNCHANGED <<requirements_db, changes_log>>

\* C9: an empty or missing transcript gives the error "No transcript
\* provided"; a transcript in which nothing is found gives a response that
\* is not an error, with no requirements and total_found = 0; neither
\* changes requirements_db or changes_log.
C9_InvalidVersusEmpty == [][InvalidVersusEmpty]_vars

C9_Witness ==
    /\ response.code = 200
    /\ "total_found" \in DOMAIN response.body
    /\ response.body.total_found = 0
    /\ response.body.requirements = <<>>
    /\ requirements_db # <<>>

\* the positions of the records with the id of the request
Matching(data) ==
    {k \in DOMAIN requirements_db : requirements_db[k].id = Get(data, "id", None)}

OnlyTrackedFieldsChange ==
    \A data \in UpdateBodies :
        update_requirement(data) =>
            /\ Len(requirements_db') = Len(requirements_db)
            /\ Len(changes_log') >= Len(changes_log)
            /\ SubSeq(changes_log', 1, Len(changes_log)) = changes_log
            /\ \A k \in DOMAIN requirements_db :
                 /\ DOMAIN requirements_db'[k] = DOMAIN requirements_db[k]
                 /\ \A f \in DOMAIN requirements_db[k] :
                      requirements_db'[k][f] # requirements_db[k][f] =>
                        /\ Matching(data) # {}
                        /\ k = Least(Matching(data))
                        /\ f \in {"user_story", "status", "priority"}
            /\ Matching(data) = {} =>
                 /\ response'.code = 404
                 /\ response'.body = [error |-> "Requirement not found"]
                 /\ UNCHANGED <<requirements_db, changes_log>>

C11_ConcurrentIdsDistinct ==
    \A j \in DOMAIN requirements_db : \A k \in DOMAIN requirements_db :
        requirements_db[j].id = requirements_db[k].id => j = k

====
